---- MODULE Spec2Model ----
(***************************************************************************)
(* scripts/start_workspace.py: the supervisor that starts code-server,     *)
(* waits for its port, starts the cloudflared tunnel, scans the tunnel's   *)
(* output for the public URL, forwards the output to a log and shuts both  *)
(* children down.                                                          *)
(*                                                                         *)
(* main() is one sequential control flow; pc is its position, named after  *)
(* the source line it is about to execute.  cleanup() runs either as a     *)
(* call from main() or as the SIGINT/SIGTERM handler, which CPython runs   *)
(* on the main thread between two bytecodes of whatever is executing, so   *)
(* stack holds the positions of the active cleanup() frames, innermost     *)
(* first.  The two children and the operator are the environment.          *)
(***************************************************************************)
EXTENDS Integers, Sequences, FiniteSets, TLC

\* ------------------------------------------------------------------ bounds
\* Lines the tunnel writes in one session.
MaxLines == 2
\* Signals the operator sends in one session.
MaxSignals == 2

\* ------------------------------------------------------- program constants
\* wait_for_port(port, timeout=15): seconds.
timeout == 15
\* socket.create_connection(..., timeout=1): seconds.
connect_timeout == 1
\* time.sleep(0.5): the clock of the model ticks once per sleep, twice a second.
TicksPerSecond == 2
\* secrets.token_urlsafe(12): random bytes drawn for the password.
password_nbytes == 12

Procs == {"cs", "cf"}

\* ------------------------------------------------------- the URL pattern
\* A line is a sequence of tokens: "P" is the text https://, "a" and "b" are
\* characters of [a-zA-Z0-9-], "S" is the text .trycloudflare.com, "_" is any
\* other character, "X" is a byte sequence the text decoder rejects.
LabelChars == {"a", "b"}
NoURL == <<>>

\* The length of the longest run of label characters of l starting at i.
RECURSIVE LabelRun(_, _)
LabelRun(l, i) ==
    IF i <= Len(l) /\ l[i] \in LabelChars THEN 1 + LabelRun(l, i + 1) ELSE 0

\* A pattern without the host suffix, https://[a-zA-Z0-9-]+, at position i.
MatchAtAnyHost(l, i) ==
    LET n == LabelRun(l, i + 1)
    IN  IF l[i] = "P" /\ n >= 1 THEN SubSeq(l, i, i + n) ELSE NoURL

\* re.match of https://[a-zA-Z0-9-]+\.trycloudflare\.com at position i: the
\* matched text, or NoURL.  The label is greedy and a label character is never
\* a dot, so the only candidate is the maximal run followed by the suffix.
MatchAt(l, i) ==
    LET n == LabelRun(l, i + 1)
    IN  IF /\ l[i] = "P"
           /\ n >= 1
           /\ i + n + 1 <= Len(l)
           /\ l[i + n + 1] = "S"
        THEN SubSeq(l, i, i + n + 1)
        ELSE NoURL

RECURSIVE SearchFrom(_, _)
SearchFrom(l, i) ==
    IF i > Len(l) THEN NoURL
    ELSE IF MatchAt(l, i) # NoURL THEN MatchAt(l, i)
    ELSE SearchFrom(l, i + 1)

\* A search that returns the text from the scheme to the end of the line.
url_pattern_search_to_eol(l) ==
    LET m == SearchFrom(l, 1)
    IN  IF m = NoURL THEN NoURL
        ELSE LET i == CHOOSE k \in 1..Len(l) :
                          /\ MatchAt(l, k) # NoURL
                          /\ \A j \in 1..(k - 1) : MatchAt(l, j) = NoURL
             IN  SubSeq(l, i, Len(l))

\* url_pattern.search(line) followed by match.group(0): the leftmost match.
url_pattern_search(l) == SearchFrom(l, 1)

\* What the tunnel may write: an unrelated line, a line with a URL inside, a
\* line with a false start before another URL, and undecodable bytes.
Undecodable == <<"X">>
TunnelLines ==
    { <<"_">>,
      <<"_", "P", "a", "S", "_">>,
      <<"P", "_", "P", "b", "a", "S">>,
      Undecodable }

\* ------------------------------------------------------------------ state
VARIABLES
    pc,                 \* main()'s position; "exited": the interpreter ended
    stack,              \* positions of the active cleanup() frames, top first
    exit_code,          \* the supervisor's exit status, -1 while it runs
    workspace_valid,    \* os.path.isdir(workspace)
    foreign_listener,   \* something else is listening on 127.0.0.1:<port>
    cf_present,         \* os.path.exists(cf_path): cloudflared is in bin/
    cs_present,         \* os.path.exists(cs_bin): code-server is in bin/
    password,           \* the session password: random bytes drawn, length
    proc,               \* code_server_proc / tunnel_proc: each child's state:
                        \* "none" (not spawned), "running", "terminating"
                        \* (got SIGTERM, exiting), "ignoring" (got SIGTERM,
                        \* stays alive), "dead"
    cs_bound,           \* code-server is listening on the port
    elapsed,            \* time.time() - start_time, in ticks
    handler_installed,  \* signal.signal(..., cleanup) has run
    cs_log_file,        \* "unopened", "open" or "closed"
    cf_log_file,
    tunnel_out,         \* the lines of the tunnel's output read so far
    unread,             \* how many more lines wait in the tunnel's pipe
    cf_log,             \* the lines written to cloudflared.log
    line,               \* the local variable line
    tunnel_url,         \* the local variable tunnel_url (None is NoURL)
    reported_url,       \* the URL printed to the user
    console,            \* the messages printed so far
    \* what has happened so far, for the properties
    cs_ever_bound,      \* code-server has bound the port at some time
    connectable_in_time,\* the port accepted connections before the timeout
    probe_result,       \* what wait_for_port returned: "none", "true", "false"
    probe_late,         \* it returned later than timeout + one polling interval
    signals,            \* signals delivered so far
    cleanup_entered,    \* how many times cleanup()'s body was entered
    closes,             \* close() calls per log file
    req_on_dead,        \* terminate()/kill() was called on an exited child
    kill_sent,          \* the children kill() was called on
    ignored,            \* the children that have ignored a SIGTERM
    alive_at_poll,      \* per line polled in the scan: the tunnel was alive
    download_failed,    \* a download or extraction step ended non-zero
    reached_running     \* the ready banner was printed, forwarding entered

vars == << pc, stack, exit_code, workspace_valid, foreign_listener,
           cf_present, cs_present, password, download_failed,
           proc,
           cs_bound, elapsed, handler_installed, cs_log_file,
           cf_log_file, tunnel_out, unread, cf_log, line, tunnel_url,
           reported_url, console, cs_ever_bound, connectable_in_time,
           probe_result, probe_late, signals,
           cleanup_entered, closes, req_on_dead, kill_sent, ignored,
           alive_at_poll, reached_running >>

hostVars == << workspace_valid, foreign_listener >>
setupVars == << cf_present, cs_present, password, download_failed >>
envVars  == << hostVars, setupVars >>
procVars == << proc, cs_bound, cs_ever_bound >>
pipeVars == << tunnel_out, unread, cf_log, line >>
fileVars == << cs_log_file, cf_log_file, closes >>
urlVars  == << tunnel_url, reported_url, reached_running >>
probeVars == << elapsed, connectable_in_time, probe_result, probe_late >>
sigVars  == << handler_installed, signals >>
shutVars == << cleanup_entered, req_on_dead, kill_sent >>

\* The children of process table pr that stay alive after a SIGTERM.
Ignoring(pr) == { p \in Procs : pr[p] = "ignoring" }

\* password before line 77.
NoPassword == [nbytes |-> 0, len |-> 0]

Init ==
    /\ pc = "l69"
    /\ stack = <<>>
    /\ exit_code = -1
    /\ workspace_valid \in BOOLEAN
    /\ foreign_listener \in BOOLEAN
    /\ cf_present \in BOOLEAN
    /\ cs_present \in BOOLEAN
    /\ password = NoPassword
    /\ download_failed = FALSE
    /\ proc = [p \in Procs |-> "none"]
    /\ cs_bound = FALSE
    /\ elapsed = 0
    /\ handler_installed = FALSE
    /\ cs_log_file = "unopened"
    /\ cf_log_file = "unopened"
    /\ tunnel_out = <<>>
    /\ unread = 0
    /\ cf_log = <<>>
    /\ line = <<>>
    /\ tunnel_url = NoURL
    /\ reported_url = NoURL
    /\ console = {}
    /\ cs_ever_bound = FALSE
    /\ connectable_in_time = FALSE
    /\ probe_result = "none"
    /\ probe_late = FALSE
    /\ signals = 0
    /\ cleanup_entered = 0
    /\ closes = [f \in Procs |-> 0]
    /\ req_on_dead = FALSE
    /\ kill_sent = {}
    /\ ignored = {}
    /\ alive_at_poll = <<>>
    /\ reached_running = FALSE

Running == pc # "exited"
InMain  == Running /\ stack = <<>>

\* The interpreter ends with status code: sys.exit(code), the end of main(),
\* an uncaught exception or a signal's default action.
Exit(code) ==
    /\ pc' = "exited"
    /\ exit_code' = code
    /\ stack' = <<>>

\* --------------------------------------------------- main(), lines 68-131
\* l69-71: the workspace must be a directory.
CheckWorkspace ==
    /\ InMain /\ pc = "l69"
    /\ IF workspace_valid
       THEN /\ pc' = "l74"
            /\ UNCHANGED << stack, exit_code, console >>
       ELSE /\ Exit(1)
            /\ console' = console \cup {"not a valid directory"}
    /\ UNCHANGED << envVars, procVars, pipeVars, fileVars, urlVars, probeVars,
                    sigVars, shutVars, ignored, alive_at_poll >>

\* download_binaries, lines 34-51: the subprocess.run calls it makes, in order:
\* curl and chmod for cloudflared, curl and tar for code-server, each pair
\* only when its binary is missing.
DownloadSteps(cf_p, cs_p) ==
    (IF cf_p THEN <<>> ELSE <<"curl cloudflared", "chmod cloudflared">>)
    \o (IF cs_p THEN <<>> ELSE <<"curl code-server", "tar code-server">>)

\* A subprocess.run without check=True: the exit status is not looked at.
CheckRaisesNever(status) == FALSE

\* subprocess.run(..., check=True) raises CalledProcessError when the command
\* ends with a non-zero status.
CheckRaises(status) == status # 0

\* l74: download_binaries().  Step number failed of the steps ends with status
\* 1 (0: none does).  CalledProcessError is caught nowhere: the interpreter
\* prints a traceback and ends with status 1.  What a failed step leaves in
\* bin/ is not followed, the session being over.
DownloadBinaries ==
    /\ InMain /\ pc = "l74"
    /\ \E failed \in 0..Len(DownloadSteps(cf_present, cs_present)) :
          /\ download_failed' = (failed # 0)
          /\ IF failed # 0 /\ CheckRaises(1)
             THEN /\ Exit(1)
                  /\ UNCHANGED << cf_present, cs_present >>
             ELSE /\ pc' = "l77"
                  /\ cf_present' = TRUE
                  /\ cs_present' = TRUE
                  /\ UNCHANGED << stack, exit_code >>
    /\ UNCHANGED << hostVars, password, procVars, pipeVars, fileVars, urlVars,
                    probeVars, sigVars, shutVars, ignored, alive_at_poll,
                    console >>

\* secrets.token_urlsafe(nbytes): nbytes random bytes, base64-encoded without
\* padding, four characters for every three bytes.
token_urlsafe(nbytes) ==
    [nbytes |-> nbytes, len |-> (4 * nbytes + 2) \div 3]

\* l77: password = secrets.token_urlsafe(12)
GeneratePassword ==
    /\ InMain /\ pc = "l77"
    /\ password' = token_urlsafe(password_nbytes)
    /\ pc' = "l118"
    /\ UNCHANGED << stack, exit_code, hostVars, cf_present, cs_present,
                    download_failed, procVars, pipeVars, fileVars, urlVars,
                    probeVars, sigVars, shutVars, ignored, alive_at_poll,
                    console >>

\* l118-135: open code-server.log, spawn code-server, enter wait_for_port.
SpawnCodeServer ==
    /\ InMain /\ pc = "l118"
    /\ cs_log_file' = "open"
    /\ proc' = [proc EXCEPT !["cs"] = "running"]
    /\ elapsed' = 0
    /\ connectable_in_time' = foreign_listener
    /\ pc' = "l136"
    /\ UNCHANGED << stack, exit_code, envVars, cs_bound, cs_ever_bound,
                    pipeVars, cf_log_file, closes, urlVars, probe_result,
                    probe_late, sigVars, shutVars, ignored, alive_at_poll,
                    console >>

\* ------------------------------------------- wait_for_port, lines 133-144
TimeoutTicks == timeout * TicksPerSecond
Listening == cs_bound \/ foreign_listener

\* wait_for_port returns r at time t.
ProbeReturns(r, t) ==
    /\ probe_result' = (IF r THEN "true" ELSE "false")
    /\ probe_late' = (t > TimeoutTicks + 1)
    /\ elapsed' = 0
    /\ pc' = (IF r THEN "l154" ELSE "l148")

\* l136: while time.time() - start_time < timeout
WithinTimeout(e) == e < TimeoutTicks

ProbeLoopTest ==
    /\ InMain /\ pc = "l136"
    /\ IF WithinTimeout(elapsed)
       THEN /\ pc' = "l138"
            /\ UNCHANGED << elapsed, probe_result, probe_late >>
       ELSE ProbeReturns(FALSE, elapsed)
    /\ UNCHANGED << stack, exit_code, envVars, procVars, pipeVars, fileVars,
                    urlVars, connectable_in_time, sigVars, shutVars, ignored,
                    alive_at_poll, console >>

\* l138-140: socket.create_connection(("127.0.0.1", port), timeout=1).  With
\* a listener the connection is accepted, or (its backlog full) the attempt
\* times out after connect_timeout; with none it is refused at once.
ProbeConnect ==
    /\ InMain /\ pc = "l138"
    /\ \/ /\ Listening
          /\ ProbeReturns(TRUE, elapsed)
       \/ /\ Listening
          /\ elapsed' = elapsed + connect_timeout * TicksPerSecond
          /\ pc' = "l141"
          /\ UNCHANGED << probe_result, probe_late >>
       \/ /\ ~Listening
          /\ pc' = "l141"
          /\ UNCHANGED elapsed
          /\ UNCHANGED << probe_result, probe_late >>
    /\ UNCHANGED << stack, exit_code, envVars, procVars, pipeVars, fileVars,
                    urlVars, connectable_in_time, sigVars, shutVars, ignored,
                    alive_at_poll, console >>

\* A poll() that never notices the child's exit.
PollExitedNever(p) == FALSE

\* A poll() of code_server_proc whatever child is asked about.
PollExitedServer(p) == proc["cs"] = "dead"

\* Popen.poll() is not None: the child has exited.
PollExited(p) == proc[p] = "dead"

\* l141-142: if code_server_proc.poll() is not None: return False
ProbePoll ==
    /\ InMain /\ pc = "l141"
    /\ IF PollExited("cs")
       THEN ProbeReturns(FALSE, elapsed)
       ELSE /\ pc' = "l143"
            /\ UNCHANGED << elapsed, probe_result, probe_late >>
    /\ UNCHANGED << stack, exit_code, envVars, procVars, pipeVars, fileVars,
                    urlVars, connectable_in_time, sigVars, shutVars, ignored,
                    alive_at_poll, console >>

\* l143: time.sleep(0.5)
ProbeSleep ==
    /\ InMain /\ pc = "l143"
    /\ elapsed' = elapsed + 1
    /\ pc' = "l136"
    /\ UNCHANGED << stack, exit_code, envVars, procVars, pipeVars, fileVars,
                    urlVars, connectable_in_time, probe_result, probe_late,
                    sigVars, shutVars, ignored, alive_at_poll, console >>

\* Popen.terminate() on child p of process table pr: SIGTERM.  A running child
\* either handles it and is on its way out, or ignores it; a child in any
\* other state is left as it is.  The set of possible outcomes.
Terminate(pr, p) ==
    IF pr[p] = "running"
    THEN { [pr EXCEPT ![p] = "terminating"], [pr EXCEPT ![p] = "ignoring"] }
    ELSE { pr }

\* Popen.kill() on child p of process table pr: SIGKILL.
Kill(pr, p) == IF pr[p] = "none" THEN pr ELSE [pr EXCEPT ![p] = "dead"]

\* l147-151: wait_for_port returned False: two messages, terminate, exit 1.
ReadinessFailed ==
    /\ InMain /\ pc = "l148"
    /\ console' = console \cup {"code-server failed to start", "cs_log_path"}
    /\ proc' \in Terminate(proc, "cs")
    /\ ignored' = ignored \cup Ignoring(proc')
    /\ Exit(1)
    /\ UNCHANGED << envVars, cs_bound, cs_ever_bound, pipeVars, fileVars,
                    urlVars, probeVars, sigVars, shutVars, alive_at_poll >>

\* l154-168: open cloudflared.log, spawn the tunnel with its output piped.
SpawnTunnel ==
    /\ InMain /\ pc = "l154"
    /\ cf_log_file' = "open"
    /\ proc' = [proc EXCEPT !["cf"] = "running"]
    /\ pc' = "l185"
    /\ UNCHANGED << stack, exit_code, envVars, cs_bound, cs_ever_bound,
                    pipeVars, cs_log_file, closes, urlVars, probeVars,
                    sigVars, shutVars, ignored, alive_at_poll, console >>

\* l185-186: signal.signal(SIGINT, cleanup); signal.signal(SIGTERM, cleanup)
InstallHandlers ==
    /\ InMain /\ pc = "l185"
    /\ handler_installed' = TRUE
    /\ pc' = "l190"
    /\ UNCHANGED << stack, exit_code, envVars, procVars, pipeVars, fileVars,
                    urlVars, probeVars, signals, shutVars, ignored,
                    alive_at_poll, console >>

\* ------------------------------------------------ exceptions and cleanup
\* Whether an except clause of the given kind catches the exception: a bare
\* except: catches everything, SystemExit included; except Exception does not
\* catch SystemExit or KeyboardInterrupt, which derive from BaseException.
Catches(clause, exc) ==
    \/ clause = "bare"
    \/ clause = "Exception" /\ exc \notin {"SystemExit", "KeyboardInterrupt"}

\* The except clause guarding position f of cleanup(): the try of lines
\* 174-176 has a bare except (line 177); nothing else is guarded.
ExceptHandler(f) == IF f \in {"l175", "l176"} THEN "bare" ELSE "none"

\* An exception leaves the innermost frame and travels down the frames below
\* it: the first one standing in a try whose except catches it resumes at its
\* handler (line 178), the others are left.  <<>>: the exception reached main().
RECURSIVE Unwind(_, _)
Unwind(frames, exc) ==
    IF frames = <<>> THEN <<>>
    ELSE IF Catches(ExceptHandler(Head(frames)), exc)
         THEN <<"l178">> \o Tail(frames)
         ELSE Unwind(Tail(frames), exc)

\* The try of lines 189-202 (except Exception, line 203) guards these positions.
ScanTry == {"l190", "l191", "l194", "l196", "l199"}

\* An exception raised in, or arriving at, main() at its current position:
\* caught by the scan loop's except Exception, or uncaught, and then the
\* interpreter ends with SystemExit's code, or 1 after a traceback.
RaiseInMain(exc, code) ==
    IF pc \in ScanTry /\ Catches("Exception", exc)
    THEN /\ pc' = "l204"
         /\ stack' = <<>>
         /\ UNCHANGED exit_code
    ELSE Exit(code)

\* cleanup() is entered, the caller having printed msgs: line 171 prints, the
\* frame stands before line 172.
EnterCleanup(msgs) ==
    /\ stack' = <<"l172">> \o stack
    /\ cleanup_entered' = cleanup_entered + 1
    /\ console' = console \cup msgs \cup {"shutting down"}

InCleanup(f) == Running /\ stack # <<>> /\ Head(stack) = f
Goto(f) == stack' = <<f>> \o Tail(stack)

\* l172-173: tunnel_proc.terminate(); code_server_proc.terminate()
CleanupTerminate ==
    /\ InCleanup("l172")
    /\ req_on_dead' = (req_on_dead \/ \E p \in Procs : proc[p] = "dead")
    /\ proc' \in UNION { Terminate(pr, "cs") : pr \in Terminate(proc, "cf") }
    /\ ignored' = ignored \cup Ignoring(proc')
    /\ Goto("l175")
    /\ UNCHANGED << pc, exit_code, envVars, cs_bound, cs_ever_bound, pipeVars,
                    fileVars, urlVars, probeVars, sigVars, cleanup_entered,
                    kill_sent, alive_at_poll, console >>

\* Popen.wait(timeout=3) returns: the child has exited.  Otherwise the grace
\* period runs out and it raises TimeoutExpired.
WaitReturns(p) == proc[p] = "dead"

\* Popen.wait() without a timeout: it blocks until the child has exited.
WaitRaisesNever(p) == FALSE

WaitRaises(p) == ~WaitReturns(p)

\* l175, l176: tunnel_proc.wait(timeout=3); code_server_proc.wait(timeout=3)
CleanupWait(f, p, next) ==
    /\ InCleanup(f)
    /\ \/ /\ WaitReturns(p)
          /\ Goto(next)
       \/ /\ WaitRaises(p)
          /\ stack' = Unwind(stack, "TimeoutExpired")
    /\ UNCHANGED << pc, exit_code, envVars, procVars, pipeVars, fileVars,
                    urlVars, probeVars, sigVars, shutVars, ignored,
                    alive_at_poll, console >>

\* l178-179: tunnel_proc.kill(); code_server_proc.kill()
CleanupKill ==
    /\ InCleanup("l178")
    /\ req_on_dead' = (req_on_dead \/ \E p \in Procs : proc[p] = "dead")
    /\ kill_sent' = kill_sent \cup Procs
    /\ proc' = Kill(Kill(proc, "cf"), "cs")
    /\ cs_bound' = FALSE
    /\ Goto("l180")
    /\ UNCHANGED << pc, exit_code, envVars, cs_ever_bound, pipeVars, fileVars,
                    urlVars, probeVars, sigVars, cleanup_entered, ignored,
                    alive_at_poll, console >>

\* l180-183: cs_log_file.close(); cf_log_file.close(); print; sys.exit(0).
\* SystemExit leaves this frame: a frame below that catches it carries on at
\* line 178; from main() it ends the interpreter.
CleanupCloseExit ==
    /\ InCleanup("l180")
    /\ cs_log_file' = "closed"
    /\ cf_log_file' = "closed"
    /\ closes' = [f \in Procs |-> closes[f] + 1]
    /\ console' = console \cup {"session terminated"}
    /\ LET rest == Unwind(Tail(stack), "SystemExit")
       IN  IF rest # <<>>
           THEN stack' = rest /\ UNCHANGED << pc, exit_code >>
           ELSE RaiseInMain("SystemExit", 0)
    /\ UNCHANGED << envVars, procVars, pipeVars, urlVars, probeVars, sigVars,
                    shutVars, ignored, alive_at_poll >>

\* ------------------------------------------- the scan loop, lines 189-205
\* tunnel_proc.stdout.readline(): the next line of the pipe is there, or the
\* pipe is at end of file (the tunnel has exited and everything was read);
\* otherwise the call blocks.
LineReady == unread > 0

\* A readline() that keeps waiting on a pipe whose writer has gone.
AtEOFNever == FALSE

AtEOF == unread = 0 /\ proc["cf"] = "dead"

\* l190: for line in iter(tunnel_proc.stdout.readline, "")
ScanRead ==
    /\ InMain /\ pc = "l190"
    /\ \/ /\ LineReady
          /\ \E l \in TunnelLines \ {Undecodable} :
                /\ line' = l
                /\ tunnel_out' = Append(tunnel_out, l)
          /\ unread' = unread - 1
          /\ pc' = "l191"
          /\ UNCHANGED << stack, exit_code >>
       \/ /\ LineReady      \* and its bytes do not decode
          /\ RaiseInMain("UnicodeDecodeError", 1)
          /\ UNCHANGED << line, tunnel_out, unread >>
       \/ /\ AtEOF
          /\ pc' = "l207"
          /\ UNCHANGED << line, tunnel_out, unread, stack, exit_code >>
    /\ UNCHANGED << envVars, procVars, cf_log, fileVars, urlVars,
                    probeVars, sigVars, shutVars, ignored, alive_at_poll,
                    console >>

\* A write that is lost: the log stays as it is.
LogWriteLost(log, l) == log

\* l191-192: cf_log_file.write(line); cf_log_file.flush()
LogWrite(log, l) == Append(log, l)

ScanWrite ==
    /\ InMain /\ pc = "l191"
    /\ cf_log' = LogWrite(cf_log, line)
    /\ pc' = "l194"
    /\ UNCHANGED << stack, exit_code, envVars, procVars, tunnel_out, unread,
                    line, fileVars, urlVars, probeVars, sigVars, shutVars,
                    ignored, alive_at_poll, console >>

\* l194-196: if tunnel_proc.poll() is not None: print, cleanup()
ScanPoll ==
    /\ InMain /\ pc = "l194"
    /\ alive_at_poll' = Append(alive_at_poll, proc["cf"] # "dead")
    /\ IF PollExited("cf")
       THEN /\ pc' = "l196"
            /\ EnterCleanup({"tunnel exited"})
       ELSE /\ pc' = "l199"
            /\ UNCHANGED << stack, cleanup_entered, console >>
    /\ UNCHANGED << exit_code, envVars, procVars, pipeVars, fileVars, urlVars,
                    probeVars, sigVars, req_on_dead, kill_sent, ignored >>

\* l199-202: match = url_pattern.search(line); if match: tunnel_url = ...; break
ScanMatch ==
    /\ InMain /\ pc = "l199"
    /\ IF url_pattern_search(line) # NoURL
       THEN /\ tunnel_url' = url_pattern_search(line)
            /\ pc' = "l207"
       ELSE /\ pc' = "l190"
            /\ UNCHANGED tunnel_url
    /\ UNCHANGED << stack, exit_code, envVars, procVars, pipeVars, fileVars,
                    reported_url, reached_running, probeVars, sigVars,
                    shutVars, ignored, alive_at_poll, console >>

\* l203-205: except Exception: print, cleanup()
ScanExcept ==
    /\ InMain /\ pc = "l204"
    /\ pc' = "l205"
    /\ EnterCleanup({"error reading tunnel output"})
    /\ UNCHANGED << exit_code, envVars, procVars, pipeVars, fileVars, urlVars,
                    probeVars, sigVars, req_on_dead, kill_sent, ignored,
                    alive_at_poll >>

\* ----------------------------------------------- after the scan, 207-232
\* l207-217 and l229-232: with a URL print the banner and go on to forward;
\* without one print the failure and the tunnel log's path, and cleanup().
AfterScan ==
    /\ InMain /\ pc = "l207"
    /\ IF tunnel_url # NoURL
       THEN /\ reported_url' = tunnel_url
            /\ reached_running' = TRUE
            /\ console' = console \cup {"workspace ready"}
            /\ pc' = "l222"
            /\ UNCHANGED << stack, cleanup_entered >>
       ELSE /\ pc' = "l232"
            /\ EnterCleanup({"failed to establish tunnel", "cf_log_path"})
            /\ UNCHANGED << reported_url, reached_running >>
    /\ UNCHANGED << exit_code, envVars, procVars, pipeVars, fileVars,
                    tunnel_url, probeVars, sigVars, req_on_dead, kill_sent,
                    ignored, alive_at_poll >>

\* l222-224: line = readline(); if not line: break, and main() returns.  A
\* decoding error is not a KeyboardInterrupt: nothing catches it.
ForwardRead ==
    /\ InMain /\ pc = "l222"
    /\ \/ /\ LineReady
          /\ \E l \in TunnelLines \ {Undecodable} :
                /\ line' = l
                /\ tunnel_out' = Append(tunnel_out, l)
          /\ unread' = unread - 1
          /\ pc' = "l225"
          /\ UNCHANGED << stack, exit_code >>
       \/ /\ LineReady      \* and its bytes do not decode
          /\ Exit(1)
          /\ UNCHANGED << line, tunnel_out, unread >>
       \/ /\ AtEOF
          /\ Exit(0)
          /\ UNCHANGED << line, tunnel_out, unread >>
    /\ UNCHANGED << envVars, procVars, cf_log, fileVars, urlVars,
                    probeVars, sigVars, shutVars, ignored, alive_at_poll,
                    console >>

\* l225-226: cf_log_file.write(line); cf_log_file.flush()
ForwardWrite ==
    /\ InMain /\ pc = "l225"
    /\ cf_log' = LogWrite(cf_log, line)
    /\ pc' = "l222"
    /\ UNCHANGED << stack, exit_code, envVars, procVars, tunnel_out, unread,
                    line, fileVars, urlVars, probeVars, sigVars, shutVars,
                    ignored, alive_at_poll, console >>

\* ------------------------------------------------------------ environment
\* The operator sends SIGINT or SIGTERM.  With the handlers installed
\* cleanup() starts on top of whatever is running, cleanup() itself included.
\* Before line 185 SIGINT raises KeyboardInterrupt in main(), which nothing
\* catches there, and SIGTERM kills the interpreter.
Signal ==
    /\ Running
    /\ signals < MaxSignals
    /\ signals' = signals + 1
    /\ \/ /\ handler_installed
          /\ EnterCleanup({})
          /\ UNCHANGED << pc, exit_code >>
       \/ /\ ~handler_installed
          /\ \E code \in {130, 143} : Exit(code)
          /\ UNCHANGED << cleanup_entered, console >>
    /\ UNCHANGED << envVars, procVars, pipeVars, fileVars, urlVars, probeVars,
                    handler_installed, req_on_dead, kill_sent, ignored,
                    alive_at_poll >>

\* code-server binds 127.0.0.1:<port>, which it can when the port is free.
ServerBinds ==
    /\ Running
    /\ proc["cs"] = "running" /\ ~cs_bound /\ ~foreign_listener
    /\ cs_bound' = TRUE
    /\ cs_ever_bound' = TRUE
    /\ connectable_in_time' =
           \/ connectable_in_time
           \/ (probe_result = "none" /\ WithinTimeout(elapsed))
    /\ UNCHANGED << pc, stack, exit_code, envVars, proc, pipeVars, fileVars,
                    urlVars, elapsed, probe_result, probe_late, sigVars,
                    shutVars, ignored, alive_at_poll, console >>

\* A child exits: on its own while it runs, or because it was asked to.
ChildExits(p) ==
    /\ \/ Running /\ proc[p] = "running"
       \/ proc[p] = "terminating"
    /\ proc' = [proc EXCEPT ![p] = "dead"]
    /\ cs_bound' = (IF p = "cs" THEN FALSE ELSE cs_bound)
    /\ UNCHANGED << pc, stack, exit_code, envVars, cs_ever_bound, pipeVars,
                    fileVars, urlVars, probeVars, sigVars, shutVars, ignored,
                    alive_at_poll, console >>

\* The tunnel writes a line to its output.  What the line says is the
\* tunnel's choice and is seen by the supervisor only when readline() returns
\* it, so the choice is drawn there.  Once cleanup() has been entered main()
\* never reads again, so what the tunnel writes from then on is left out.
TunnelWrites ==
    /\ InMain
    /\ proc["cf"] \in {"running", "terminating", "ignoring"}
    /\ Len(tunnel_out) + unread < MaxLines
    /\ unread' = unread + 1
    /\ UNCHANGED << pc, stack, exit_code, envVars, procVars, tunnel_out, cf_log,
                    line, fileVars, urlVars, probeVars, sigVars, shutVars,
                    ignored, alive_at_poll, console >>

\* ---------------------------------------------------------- specification
MainStep ==
    \/ CheckWorkspace
    \/ DownloadBinaries
    \/ GeneratePassword
    \/ SpawnCodeServer
    \/ ProbeLoopTest
    \/ ProbeConnect
    \/ ProbePoll
    \/ ProbeSleep
    \/ ReadinessFailed
    \/ SpawnTunnel
    \/ InstallHandlers
    \/ ScanRead
    \/ ScanWrite
    \/ ScanPoll
    \/ ScanMatch
    \/ ScanExcept
    \/ AfterScan
    \/ ForwardRead
    \/ ForwardWrite

CleanupStep ==
    \/ CleanupTerminate
    \/ CleanupWait("l175", "cf", "l176")
    \/ CleanupWait("l176", "cs", "l180")
    \/ CleanupKill
    \/ CleanupCloseExit

EnvStep ==
    \/ Signal
    \/ ServerBinds
    \/ \E p \in Procs : ChildExits(p)
    \/ TunnelWrites

Next == MainStep \/ CleanupStep \/ EnvStep

Spec == Init /\ [][Next]_vars

\* The interpreter keeps executing the supervisor: main() and cleanup() take
\* their next step whenever one is possible.  Nothing is assumed of the
\* children or the operator.
FairSpec == Spec /\ WF_vars(MainStep) /\ WF_vars(CleanupStep)

\* ================================================================ claims
Exited == pc = "exited"
LinesRead == tunnel_out

\* C1: the tunnel process is spawned only after the session's own code-server
\* has bound the port, whatever else may be answering on it: in no state has
\* the tunnel been spawned while code-server has never bound.
C1_TunnelOnlyAfterServerBound == proc["cf"] # "none" => cs_ever_bound

\* C2 as stated: for a valid workspace and with no signal, the session reaches
\* Running if and only if the port became connectable within the timeout and
\* the tunnel's output yielded a line with an endpoint match: the supervisor
\* read such a line, which the tunnel wrote before it exited.
TunnelYieldedMatch ==
    \E i \in 1..Len(tunnel_out) : url_pattern_search(tunnel_out[i]) # NoURL

C2_RunningIffConnectableAndMatchYielded ==
    (workspace_valid /\ signals = 0 /\ Exited)
        => (reached_running <=> (connectable_in_time /\ TunnelYieldedMatch))

\* C2 amended: the session reaches Running only if wait_for_port connected
\* and the scan read a line with an endpoint match after which poll() found
\* the tunnel still alive; and with no signal such a line always leads to
\* Running, at the latest two steps (match, banner) after that poll.
MatchReadAlive ==
    \E i \in 1..Len(alive_at_poll) :
        alive_at_poll[i] /\ url_pattern_search(tunnel_out[i]) # NoURL

C2_RunningIffProbeConnectedAndMatchReadAlive ==
    /\ reached_running => (probe_result = "true" /\ MatchReadAlive)
    /\ (/\ workspace_valid
        /\ signals = 0
        /\ MatchReadAlive
        /\ pc \notin {"l199", "l207"}) => reached_running

\* C2 witness: the banner was printed after a matching line was read from a
\* live tunnel, and no signal was involved.
C2_Witness == reached_running /\ signals = 0 /\ MatchReadAlive

\* C3: a signal delivered at any point after code-server was spawned triggers
\* the shutdown sequence exactly once.  (A signal before the spawn ends the
\* supervisor, so a signal together with a spawned server is a signal
\* delivered after the spawn.)
C3_InterruptShutsDownOnce ==
    (signals > 0 /\ proc["cs"] # "none") => cleanup_entered = 1

\* C4: the body of the shutdown sequence is entered at most once per session
\* and two shutdown sequences never overlap.
C4_NoOverlappingShutdown == cleanup_entered <= 1 /\ Len(stack) <= 1

\* C5: no log handle is closed a second time and no terminate or kill request
\* is issued to a child that has already terminated.
C5_ShutdownActsOnNothingFinished ==
    /\ ~req_on_dead
    /\ \A f \in Procs : closes[f] <= 1

\* C6: the supervisor exits with status 1 when the workspace is invalid or the
\* startup failed, and with status 0 only after an operator's signal.
StartupFailed ==
    console \cap {"code-server failed to start", "tunnel exited",
                  "failed to establish tunnel"} # {}

C6_ExitStatus ==
    Exited => /\ ("not a valid directory" \in console \/ StartupFailed)
                     => exit_code = 1
              /\ exit_code = 0 => signals > 0

\* C7: a reported endpoint has the shape https://<label>.trycloudflare.com and
\* occurs in a line of the tunnel's output that has been read.
IsEndpointURL(u) ==
    /\ Len(u) >= 3
    /\ u[1] = "P"
    /\ u[Len(u)] = "S"
    /\ \A k \in 2..(Len(u) - 1) : u[k] \in LabelChars

OccursIn(u, l) ==
    \E i \in 1..Len(l) :
        /\ i + Len(u) - 1 <= Len(l)
        /\ SubSeq(l, i, i + Len(u) - 1) = u

C7_ReportedEndpointWasMatched ==
    reported_url # NoURL =>
        /\ IsEndpointURL(reported_url)
        /\ \E i \in 1..Len(tunnel_out) : OccursIn(reported_url, tunnel_out[i])

\* C7 witness: an endpoint has been reported.
C7_Witness == reported_url # NoURL /\ "workspace ready" \in console

\* C8: the tunnel log holds the lines read, once each and in read order; at
\* most the line just read is still to be written, main() standing at the
\* write; when the supervisor has ended every line read is in the log.
C8_EveryLineReadIsLogged ==
    /\ Len(cf_log) <= Len(LinesRead)
    /\ cf_log = SubSeq(LinesRead, 1, Len(cf_log))
    /\ Len(LinesRead) - Len(cf_log) <= 1
    /\ Len(cf_log) < Len(LinesRead) => pc \in {"l191", "l225", "exited"}
    /\ Exited => cf_log = LinesRead

\* C9: when code-server has exited without ever binding the port,
\* wait_for_port does not return True, returns False no later than the
\* timeout plus one polling interval, the tunnel is never spawned, and a
\* supervisor that ends without a signal has printed the readiness failure
\* and the path of the server log.
C9_DeadServerFailsReadiness ==
    (proc["cs"] = "dead" /\ ~cs_ever_bound) =>
        /\ probe_result # "true"
        /\ proc["cf"] = "none"
        /\ probe_result = "false" => ~probe_late
        /\ (Exited /\ signals = 0) =>
               {"code-server failed to start", "cs_log_path"} \subseteq console

\* C10: once cleanup() has been entered the supervisor always ends, and when
\* it has ended that way no child that ignored SIGTERM is left alive: each
\* was sent SIGKILL.
C10_ShutdownKillsAndTerminates ==
    /\ [](Exited /\ cleanup_entered > 0 =>
              \A p \in ignored : proc[p] = "dead" /\ p \in kill_sent)
    /\ (cleanup_entered > 0) ~> Exited

\* C10 witnesses: the supervisor has ended through cleanup() after the
\* server, the tunnel, or both ignored SIGTERM.
C10_Witness ==
    /\ Exited /\ cleanup_entered = 1 /\ exit_code = 0
    /\ ignored = Procs
    /\ kill_sent = Procs

C10_WitnessServerOnly ==
    Exited /\ cleanup_entered = 1 /\ ignored = {"cs"} /\ "cs" \in kill_sent

C10_WitnessTunnelOnly ==
    Exited /\ cleanup_entered = 1 /\ ignored = {"cf"} /\ "cf" \in kill_sent

\* C11: when the supervisor has ended after spawning a child, and not by a
\* signal that found no handler installed, neither child is alive and each
\* log file that was opened has been closed.
C11_NoChildLeftAtExit ==
    (/\ Exited
     /\ proc["cs"] # "none"
     /\ signals > 0 => cleanup_entered > 0) =>
        /\ \A p \in Procs : proc[p] \in {"none", "dead"}
        /\ cs_log_file = "closed"
        /\ cf_log_file \in {"unopened", "closed"}

\* C11 on the path the claim names third: the forwarding loop has ended at the
\* end of the tunnel's output, with no signal.
C11_NoChildLeftAfterForwarding ==
    (Exited /\ reached_running /\ signals = 0 /\ exit_code = 0) =>
        /\ \A p \in Procs : proc[p] = "dead"
        /\ cs_log_file = "closed" /\ cf_log_file = "closed"

\* C12: the password generated for the session is drawn from at least 16
\* random bytes.
C12_CredentialEntropy == password # NoPassword => password.nbytes >= 16

\* C13: if a child is running while main() is in the forwarding loop, then
\* whenever it has exited afterwards cleanup() is entered or has been.
ForwardingWith(p) ==
    InMain /\ pc \in {"l222", "l225"} /\ proc[p] = "running"

C13_ChildExitInRunningShutsDown ==
    \A p \in Procs :
        [](ForwardingWith(p) =>
              [](proc[p] = "dead" => <>(cleanup_entered > 0)))

TunnelFailureReported ==
    console \cap {"tunnel exited", "error reading tunnel output",
                  "failed to establish tunnel"} # {}

\* The scan has failed or is bound to: the tunnel has exited and main() is at
\* one of the given positions of the scan loop; or the scan has ended without
\* a URL; or main() is in a cleanup() it called from the scan or from the
\* no-match branch; or the supervisor has ended, the tunnel is dead and no
\* banner was printed.
ScanFailedFrom(positions) ==
    \/ proc["cf"] = "dead" /\ tunnel_url = NoURL /\ pc \in positions
    \/ pc = "l207" /\ tunnel_url = NoURL
    \/ pc \in {"l196", "l204", "l205", "l232"}
    \/ Exited /\ proc["cf"] = "dead" /\ ~reached_running

\* What holds of a failed scan: no Running, no endpoint reported, and a
\* tunnel failure printed if the supervisor has ended without a signal.
FailedScanOutcome ==
    /\ ~reached_running
    /\ reported_url = NoURL
    /\ (Exited /\ signals = 0) => TunnelFailureReported

\* C14 as stated: when the tunnel has exited while the scan is under way and
\* has found no match yet (main() anywhere from the read to the search), the
\* scan has failed for good: the supervisor always ends, never enters Running
\* or reports an endpoint, and prints a tunnel failure.
TunnelExitedBeforeMatchFound ==
    ScanFailedFrom({"l190", "l191", "l194", "l199"})

C14_TunnelExitBeforeMatchFoundEndsSession ==
    /\ [][TunnelExitedBeforeMatchFound => TunnelExitedBeforeMatchFound']_vars
    /\ [](TunnelExitedBeforeMatchFound => FailedScanOutcome)
    /\ TunnelExitedBeforeMatchFound ~> Exited

\* C14 amended: the same for a tunnel that has exited before the scan has
\* polled it for the line at hand: main() is reading, writing or about to
\* poll.  Once that is so it stays so or leads to the other cases of a failed
\* scan, all of which exclude Running, and the supervisor always ends.
TunnelExitedBeforeMatch == ScanFailedFrom({"l190", "l191", "l194"})

C14_EarlyTunnelExitEndsSession ==
    /\ [][TunnelExitedBeforeMatch => TunnelExitedBeforeMatch']_vars
    /\ [](TunnelExitedBeforeMatch => FailedScanOutcome)
    /\ TunnelExitedBeforeMatch ~> Exited

\* C14 witness: the tunnel exited without a matching line, the scan ended at
\* the end of its output and the supervisor has ended on the failure path.
C14_Witness ==
    /\ Exited /\ signals = 0 /\ proc["cf"] = "dead"
    /\ "failed to establish tunnel" \in console
    /\ ~reached_running /\ reported_url = NoURL

\* C15: a supervisor that has ended after a tunnel startup failure (the tunnel
\* found exited by the scan's poll, an error reading its output, or its output
\* ending without a match) has printed the path of the tunnel log.
C15_TunnelFailurePrintsLogPath ==
    (Exited /\ TunnelFailureReported) => "cf_log_path" \in console

\* C16: once a download or extraction step has ended with a non-zero status
\* the supervisor has ended with a non-zero status and no child was or is
\* ever spawned.
C16_DownloadFailureIsFatal ==
    download_failed =>
        /\ Exited /\ exit_code # 0
        /\ \A p \in Procs : proc[p] = "none"
        /\ password = NoPassword

\* C16 witness: a step of download_binaries has failed.
C16_Witness == download_failed /\ Exited /\ ~cf_present /\ ~cs_present

\* C17: when the scan has recorded a URL, the line it was polling last is the
\* first line read that contains an endpoint URL, the lines before it contain
\* none, the scan polled no line after it, and the URL recorded is the
\* leftmost endpoint URL of that line, whatever the earlier lines say.
EndpointAt(l, i, n) ==
    i + n - 1 <= Len(l) /\ IsEndpointURL(SubSeq(l, i, i + n - 1))

HasEndpoint(l) ==
    \E i \in 1..Len(l) : \E n \in 3..Len(l) : EndpointAt(l, i, n)

IsFirstEndpoint(u, l) ==
    \E i \in 1..Len(l) :
        /\ EndpointAt(l, i, Len(u))
        /\ SubSeq(l, i, i + Len(u) - 1) = u
        /\ \A j \in 1..(i - 1) : \A n \in 3..Len(l) : ~EndpointAt(l, j, n)

C17_ScanReturnsFirstMatch ==
    tunnel_url # NoURL =>
        LET k == Len(alive_at_poll)
        IN  /\ k \in 1..Len(tunnel_out)
            /\ \A j \in 1..(k - 1) : ~HasEndpoint(tunnel_out[j])
            /\ IsFirstEndpoint(tunnel_url, tunnel_out[k])

\* C17 witness: a line without a URL was read, then a line with a URL after
\* a false start, and the scan has recorded that URL.
C17_Witness ==
    /\ tunnel_url = <<"P", "b", "a", "S">>
    /\ Len(alive_at_poll) = 2
    /\ tunnel_out[1] = <<"_">>
    /\ tunnel_out[2] = <<"P", "_", "P", "b", "a", "S">>

\* C18: once the banner has been printed no step changes the recorded or the
\* reported endpoint, nothing is printed while main() runs (only a cleanup()
\* prints), and each pass of the forwarding loop appends the line it read to
\* the tunnel log.
C18_RunningOnlyForwards ==
    [][reached_running =>
          /\ tunnel_url' = tunnel_url
          /\ reported_url' = reported_url
          /\ InMain' => console' = console
          /\ (pc = "l225" /\ pc' = "l222") => cf_log' = Append(cf_log, line)
      ]_vars

\* C18 witness: the forwarding loop has read and logged a line that contains
\* an endpoint URL other than the one reported.
C18_Witness ==
    /\ reached_running /\ pc = "l222" /\ cf_log = tunnel_out
    /\ \E i \in (Len(alive_at_poll) + 1)..Len(tunnel_out) :
          url_pattern_search(tunnel_out[i]) \notin {NoURL, reported_url}

\* C19: the scan records a URL, and the banner is printed, only when the last
\* poll of the scan found the tunnel alive; when a poll has found it exited
\* cleanup() is entered and no URL is ever recorded or reported.
LastPollAlive ==
    alive_at_poll # <<>> /\ alive_at_poll[Len(alive_at_poll)]

C19_MatchOnlyFromLiveTunnel ==
    /\ (tunnel_url # NoURL \/ reached_running) => LastPollAlive
    /\ (alive_at_poll # <<>> /\ ~LastPollAlive) =>
           /\ cleanup_entered > 0
           /\ tunnel_url = NoURL /\ reported_url = NoURL

\* C19 witness: a line with an endpoint URL was read from a tunnel that had
\* exited; the poll found it so, and the supervisor has ended by cleanup().
C19_Witness ==
    /\ alive_at_poll # <<>> /\ ~LastPollAlive
    /\ url_pattern_search(tunnel_out[Len(alive_at_poll)]) # NoURL
    /\ Exited /\ signals = 0

====
